---- MODULE Spec2Model ----
(***************************************************************************)
(* State-machine model of src/server.js: the lobby registry, the per-lobby *)
(* game state objects, the setInterval countdowns and setTimeout delays,   *)
(* the image pool, the disconnect grace list and the socket handlers.      *)
(*                                                                         *)
(* JavaScript values are modelled as follows.  A Map is a function whose   *)
(* DOMAIN is the set of keys present (disconnectedPlayers, whose iteration *)
(* order is observable, is a sequence of entries).  A gameState object     *)
(* lives in `heap` under an object id, because closures (the interval      *)
(* callback of startTimer, the inner timeout of showScoreboard) capture    *)
(* the object while the other functions look it up again by lobby code.    *)
(* An unset / falsy vote field is the empty string.  A number sent by a    *)
(* client as a vote value is written "#7"; used as an object key it        *)
(* becomes the string "7" (see ToKey).                                     *)
(***************************************************************************)
EXTENDS Integers, Sequences, FiniteSets, TLC

\* ------------------------------------------------------------------ bounds
\* Countdown lengths, scaled: the source counts 60 and 30 one-second ticks.
DiscussionSeconds == 2
VotingSeconds == 1
\* gameState.totalRounds, scaled: the source plays 30 rounds.
totalRounds == 2
\* The grace period in clock units (the source: 5 * 60 * 1000 ms); ages are
\* tracked up to timeout + 1, the first value that is "more than" the period.
timeout == 1
\* gameState objects that can be alive at once (current or still captured).
MaxObjs == 2
\* Pending countdowns plus delays beyond which the host sends no new start:
\* MaxPending where the host waits for the game to end, MaxPendingBusy where
\* the host may start over a running game.
MaxPending == 1
MaxPendingBusy == 2

\* ------------------------------------------------------------------ inputs
Codes == {"L1", "L2"}
Usernames == {"ann", "bob", "cy"}
ObjIds == 1..MaxObjs
TimerIds == 1..(MaxObjs + 1)
TimeoutIds == 1..(MaxPendingBusy + 2)

Ballot(a, b, c) == [shoot |-> a, shag |-> b, marry |-> c]

VARIABLES
    lobbies,              \* Map code -> lobby
    gameStates,           \* Map code -> object id of the gameState
    heap,                 \* object id -> gameState object
    intervals,            \* live setInterval countdowns
    timeouts,             \* pending setTimeout callbacks
    gameImages,           \* the image pool
    disconnectedPlayers,  \* Map username -> {code, timestamp}, as entries
    sockets,              \* socket -> its username / lobbyCode fields
    usedCodes,            \* codes generateLobbyCode has handed out
    downAge,              \* observer: how long a participant has been away
    refused,              \* observer: whose incomplete ballot was dropped
    running,              \* the node process is alive
    emitted               \* the socket events sent by the last step

vars == <<lobbies, gameStates, heap, intervals, timeouts, gameImages,
          disconnectedPlayers, sockets, usedCodes, downAge, refused, running,
          emitted>>

\* ----------------------------------------------------------------- helpers
Put(f, k, v) == [x \in (DOMAIN f) \cup {k} |-> IF x = k THEN v ELSE f[x]]
Drop(f, k) == [x \in (DOMAIN f) \ {k} |-> f[x]]
Range(s) == {s[i] : i \in DOMAIN s}
SetMin(S) == CHOOSE x \in S : \A y \in S : x <= y

\* participants.find(p => p.username === username): index or 0
FindIndex(ps, u) ==
    IF \E i \in 1..Len(ps) : ps[i].username = u
    THEN SetMin({i \in 1..Len(ps) : ps[i].username = u})
    ELSE 0

\* participants.filter(p => p.username !== username)
RECURSIVE FilterOut(_, _)
FilterOut(ps, u) ==
    IF ps = <<>> THEN <<>>
    ELSE IF Head(ps).username = u THEN FilterOut(Tail(ps), u)
         ELSE <<Head(ps)>> \o FilterOut(Tail(ps), u)

Names(ps) == {ps[i].username : i \in 1..Len(ps)}

Ev(name, code, data) == [ev |-> name, code |-> code, data |-> data]

\* `!username || username.length < 2` over the names the model sends
ValidUsername(u) == u \notin {"", "x"}

\* Property key of a vote value: numbers are stringified.
ToKey(v) == IF v = "#7" THEN "7" ELSE v

\* ------------------------------------------------- the game state machine
\* The functions of server.js that run inside timer callbacks are operators
\* on a machine record m: the registry of game objects, the live intervals,
\* the pending timeouts and the events emitted so far by the running step.
\* m.ok is FALSE when the step needs more timer handles than the model has;
\* m.ref carries the observer's record of the ballots cast-vote dropped.
NullHandle == 0
StaleHandle == 0 - 1      \* a handle whose interval has been cleared

Machine ==
    [gs |-> gameStates, heap |-> heap, iv |-> intervals, to |-> timeouts,
     out |-> <<>>, ok |-> TRUE, ref |-> refused]

Emit(m, e) == [m EXCEPT !.out = Append(@, e)]

\* setTimeout(fn, delay * 1000).  Node runs timers in the order of their
\* expiry: a callback scheduled now fires after every pending one whose delay
\* is not longer (t.waits names them).
SetTimeout(m, fn, code, obj, delay) ==
    LET free == TimeoutIds \ {t.id : t \in m.to} IN
    IF free = {} THEN [m EXCEPT !.ok = FALSE]
    ELSE [m EXCEPT !.to = @ \cup
              {[id |-> SetMin(free), fn |-> fn, code |-> code, obj |-> obj,
                delay |-> delay,
                waits |-> {t.id : t \in {u \in m.to : u.delay <= delay}}]}]

\* if (gameState.timerInterval) clearInterval(gameState.timerInterval);
\* the field keeps the handle, which from now on names no live interval.
ClearInterval(m, o) ==
    LET h == m.heap[o].timerInterval IN
    IF h > 0
    THEN [m EXCEPT !.iv = {[i EXCEPT !.after = @ \ {h}] :
                                 i \in {j \in @ : j.id # h}},
                   !.heap[o].timerInterval = StaleHandle]
    ELSE m

\* A countdown lasts 30 or 60 seconds and no setTimeout of server.js is longer
\* than 5: the countdown expires after every callback pending at its start
\* (i.waits names them) and after every countdown that was already running
\* and is not longer (i.after names them).
StartTimer(m, code, seconds, cb) ==
    IF code \notin DOMAIN m.gs THEN m
    ELSE LET o == m.gs[code]
             m1 == ClearInterval([m EXCEPT !.heap[o].timer = seconds], o)
             free == TimerIds \ {i.id : i \in m1.iv}
         IN IF free = {} THEN [m1 EXCEPT !.ok = FALSE]
            ELSE LET id == SetMin(free) IN
                 [m1 EXCEPT !.heap[o].timerInterval = id,
                            !.iv = @ \cup {[id |-> id, code |-> code,
                                    obj |-> o, cb |-> cb, len |-> seconds,
                                    waits |-> {t.id : t \in m1.to},
                                    after |-> {j.id : j \in
                                        {k \in m1.iv : k.len <= seconds}}]}]

EndGame(m, code) ==
    IF code \notin DOMAIN m.gs THEN m
    ELSE LET o == m.gs[code]
             m1 == ClearInterval(m, o)
         IN Emit(m1, Ev("game-ended", code, [finalScores |-> m1.heap[o].scores]))

\* idx: the three values of Math.floor(Math.random() * gameImages.length) + 1
GetRandomImages(idx) ==
    IF Len(gameImages) < 3 THEN <<>>
    ELSE [i \in 1..3 |-> gameImages[idx[i]]]

StartDiscussionPhase(m, code, idx) ==
    IF code \notin DOMAIN m.gs \/ code \notin DOMAIN lobbies THEN m
    ELSE LET o == m.gs[code] IN
         IF Len(gameImages) < 3 \/ m.heap[o].roundNumber > totalRounds
         THEN EndGame(m, code)
         ELSE LET selectedImages == GetRandomImages(idx) IN
              IF Len(selectedImages) < 3 THEN EndGame(m, code)
              ELSE LET m1 == [m EXCEPT !.heap[o].currentImages = selectedImages,
                                       !.heap[o].phase = "discussion",
                                       !.heap[o].votes = <<>>,
                                       !.heap[o].voteOrder = <<>>,
                                       !.heap[o].timer = DiscussionSeconds]
                       m2 == ClearInterval(m1, o)
                       m3 == Emit(m2, Ev("images-selected", code,
                                         [images |-> selectedImages]))
                       m4 == Emit(m3, Ev("game-phase-update", code,
                                 [phase |-> "discussion",
                                  roundNumber |-> m.heap[o].roundNumber]))
                   IN StartTimer(m4, code, DiscussionSeconds, "startVotingPhase")

StartVotingPhase(m, code) ==
    IF code \notin DOMAIN m.gs THEN m
    ELSE LET o == m.gs[code]
             m1 == [m EXCEPT !.heap[o].phase = "voting",
                             !.heap[o].timer = VotingSeconds]
             m2 == Emit(m1, Ev("game-phase-update", code,
                               [phase |-> "voting", roundNumber |-> 0]))
         IN StartTimer(m2, code, VotingSeconds, "calculateResults")

\* --------------------------------------------------------- calculateResults
Categories == <<"shoot", "shag", "marry">>

\* vote && vote.shoot && vote.shag && vote.marry
Complete(vote) == vote.shoot # "" /\ vote.shag # "" /\ vote.marry # ""

\* validVoters without the `participant.connected` test of line 400
RECURSIVE ValidVotersAnyone(_, _)
ValidVotersAnyone(ps, votes) ==
    IF ps = <<>> THEN <<>>
    ELSE LET p == Head(ps)
             rest == ValidVotersAnyone(Tail(ps), votes)
         IN IF p.username \in DOMAIN votes /\ Complete(votes[p.username])
            THEN <<p.username>> \o rest
            ELSE rest

\* validVoters: the connected participants, in roster order, whose stored
\* vote is complete
RECURSIVE ValidVoters(_, _)
ValidVoters(ps, votes) ==
    IF ps = <<>> THEN <<>>
    ELSE LET p == Head(ps)
             rest == ValidVoters(Tail(ps), votes)
         IN IF p.connected /\ p.username \in DOMAIN votes
               /\ Complete(votes[p.username])
            THEN <<p.username>> \o rest
            ELSE rest

\* The keys of categoryVotes[cat] in the order they were first written.
RECURSIVE InsertionKeys(_, _, _)
InsertionKeys(voters, votes, cat) ==
    IF voters = <<>> THEN <<>>
    ELSE LET k == ToKey(votes[Head(voters)][cat])
             rest == InsertionKeys(Tail(voters), votes, cat)
         IN <<k>> \o SelectSeq(rest, LAMBDA x : x # k)

\* Object.entries order: integer-like keys first, then the other keys in
\* insertion order.  "7" is the only integer-like key the model sends.
IntegerKeys == {"7"}
EntryKeys(keys) ==
    SelectSeq(keys, LAMBDA x : x \in IntegerKeys)
        \o SelectSeq(keys, LAMBDA x : x \notin IntegerKeys)

CountFor(voters, votes, cat, k) ==
    Cardinality({i \in 1..Len(voters) : ToKey(votes[voters[i]][cat]) = k})

\* the forEach of lines 424-429: acc = [maxVotes, majorityImage]
RECURSIVE FindMax(_, _, _, _, _)
FindMax(keys, voters, votes, cat, acc) ==
    IF keys = <<>> THEN acc
    ELSE LET count == CountFor(voters, votes, cat, Head(keys)) IN
         FindMax(Tail(keys), voters, votes, cat,
                 IF count > acc.maxVotes
                 THEN [maxVotes |-> count, majorityImage |-> Head(keys)]
                 ELSE acc)

MajorityImage(g, voters, cat) ==
    LET keys == EntryKeys(InsertionKeys(voters, g.votes, cat))
        found == FindMax(keys, voters, g.votes, cat,
                         [maxVotes |-> 0, majorityImage |-> "null"])
    IN IF found.majorityImage = "null" /\ Len(g.currentImages) > 0
       THEN g.currentImages[1]
       ELSE found.majorityImage

MajorityChoices(g, voters) ==
    [cat \in Range(Categories) |-> MajorityImage(g, voters, cat)]

\* shootMatch || shagMatch || marryMatch instead of &&
MatchesAny(vote, majorityChoices) ==
    \/ vote.shoot = majorityChoices.shoot
    \/ vote.shag = majorityChoices.shag
    \/ vote.marry = majorityChoices.marry

\* shootMatch && shagMatch && marryMatch (strict equality)
MatchesAll(vote, majorityChoices) ==
    /\ vote.shoot = majorityChoices.shoot
    /\ vote.shag = majorityChoices.shag
    /\ vote.marry = majorityChoices.marry

Winners(g, voters, majorityChoices) ==
    SelectSeq(voters, LAMBDA u : MatchesAll(g.votes[u], majorityChoices))

\* gameState.scores[username] = (gameState.scores[username] || 0) + 1
RECURSIVE Award(_, _)
Award(scores, winners) ==
    IF winners = <<>> THEN scores
    ELSE LET u == Head(winners) IN
         Award(Put(scores, u, (IF u \in DOMAIN scores THEN scores[u] ELSE 0) + 1),
               Tail(winners))

CalculateResults(m, code) ==
    IF code \notin DOMAIN m.gs \/ code \notin DOMAIN lobbies THEN m
    ELSE LET o == m.gs[code]
             g == m.heap[o]
             validVoters == ValidVoters(lobbies[code].participants, g.votes)
             majorityChoices == MajorityChoices(g, validVoters)
             winners == Winners(g, validVoters, majorityChoices)
             m1 == [m EXCEPT !.heap[o].scores = Award(g.scores, winners),
                             !.heap[o].phase = "results"]
             m2 == Emit(m1, Ev("game-phase-update", code,
                               [phase |-> "results", roundNumber |-> 0]))
             m3 == Emit(m2, Ev("round-results", code,
                               [majorityChoices |-> majorityChoices,
                                pointsAwarded |-> Len(winners),
                                totalVoters |-> Len(validVoters),
                                winners |-> winners]))
         IN SetTimeout(m3, "showScoreboard", code, 0, 5)

ShowScoreboard(m, code) ==
    IF code \notin DOMAIN m.gs THEN m
    ELSE LET o == m.gs[code]
             m1 == [m EXCEPT !.heap[o].phase = "scoreboard"]
             m2 == Emit(m1, Ev("game-phase-update", code,
                               [phase |-> "scoreboard", roundNumber |-> 0]))
             m3 == Emit(m2, Ev("scoreboard-update", code,
                               [scores |-> m1.heap[o].scores]))
         IN SetTimeout(m3, "scoreboardDone", code, o, 5)

\* `roundNumber >= totalRounds` instead of `>`: the game ends a round early
ScoreboardDoneOffByOne(m, code, o) ==
    LET m1 == [m EXCEPT !.heap[o].roundNumber = @ + 1] IN
    IF m1.heap[o].roundNumber >= totalRounds
    THEN EndGame(m1, code)
    ELSE LET m2 == [m1 EXCEPT !.heap[o].phase = "waiting"]
             m3 == Emit(m2, Ev("game-phase-update", code,
                               [phase |-> "waiting", roundNumber |-> 0]))
         IN SetTimeout(m3, "startDiscussionPhase", code, 0, 3)

\* the inner setTimeout callback of showScoreboard (lines 491-504): it holds
\* the gameState object o it was created with
ScoreboardDone(m, code, o) ==
    LET m1 == [m EXCEPT !.heap[o].roundNumber = @ + 1] IN
    IF m1.heap[o].roundNumber > totalRounds
    THEN EndGame(m1, code)
    ELSE LET m2 == [m1 EXCEPT !.heap[o].phase = "waiting"]
             m3 == Emit(m2, Ev("game-phase-update", code,
                               [phase |-> "waiting", roundNumber |-> 0]))
         IN SetTimeout(m3, "startDiscussionPhase", code, 0, 3)

\* Objects no callback and no registry entry refers to any more are gone.
Collect(m) ==
    LET live == Range(m.gs) \cup {i.obj : i \in m.iv}
                    \cup {t.obj : t \in m.to}
    IN [o \in (DOMAIN m.heap) \cap live |-> m.heap[o]]

\* ------------------------------------------------------------ bookkeeping
EmptyMap == [x \in {} |-> 0]
NoData == [none |-> TRUE]

Pending == Cardinality(intervals) + Cardinality(timeouts)

IsAway(lb, c, u) ==
    /\ c \in DOMAIN lb
    /\ \E i \in 1..Len(lb[c].participants) :
          /\ lb[c].participants[i].username = u
          /\ ~lb[c].participants[i].connected

\* The observer's clock for every participant whose connected flag is false:
\* it starts when the flag turns false and is dropped when the flag turns
\* true again or the participant leaves the roster.
TrackDown(lb) ==
    [p \in {q \in Codes \X Usernames : IsAway(lb, q[1], q[2])} |->
        IF p \in DOMAIN downAge THEN downAge[p] ELSE 0]

\* The observer's record of dropped ballots lasts while the round they were
\* sent in is being voted on or tallied.
StillRefused(m) ==
    {p \in m.ref : /\ p[1] \in DOMAIN m.gs
                   /\ m.heap[m.gs[p[1]]].phase \in {"voting", "results"}}

\* What every step writes besides its own variables.  The machine record is
\* bound by \E over a singleton so that it is computed once per step.
Commit(machine, lb) ==
    /\ running
    /\ UNCHANGED running
    /\ \E m \in {machine} :
          /\ m.ok
          /\ gameStates' = m.gs
          /\ heap' = Collect(m)
          /\ intervals' = m.iv
          /\ timeouts' = m.to
          /\ emitted' = m.out
          /\ refused' = StillRefused(m)
    /\ lobbies' = lb
    /\ downAge' = TrackDown(lb)

SetConnected(lobby, u, flag) ==
    LET i == FindIndex(lobby.participants, u) IN
    IF i = 0 THEN lobby
    ELSE [lobby EXCEPT !.participants[i].connected = flag]

\* disconnectedPlayers.set(username, { code, timestamp: Date.now() })
SetDisconnected(dp, u, code) ==
    LET e == [username |-> u, code |-> code, age |-> 0] IN
    IF \E i \in 1..Len(dp) : dp[i].username = u
    THEN [i \in 1..Len(dp) |-> IF dp[i].username = u THEN e ELSE dp[i]]
    ELSE Append(dp, e)

\* ------------------------------------------------------------- HTTP routes
\* POST /api/lobby/create; code is the value of generateLobbyCode(), which
\* the model draws among the codes not handed out before.
CreateLobby(code, username) ==
    /\ code \notin usedCodes
    /\ IF ~ValidUsername(username)
       THEN /\ Commit(Machine,
                      lobbies)
            /\ UNCHANGED usedCodes
       ELSE /\ Commit(Machine,
                      Put(lobbies, code,
                          [code |-> code, host |-> username,
                           participants |-> <<[username |-> username,
                                               isHost |-> TRUE,
                                               connected |-> TRUE]>>,
                           gameStarted |-> FALSE]))
            /\ usedCodes' = usedCodes \cup {code}
    /\ UNCHANGED <<gameImages, disconnectedPlayers, sockets>>

\* POST /api/lobby/join
JoinLobby(code, username) ==
    /\ IF code = "" \/ username = ""
       THEN Commit(Machine,
                   lobbies)
       ELSE IF code \notin DOMAIN lobbies
       THEN Commit(Machine,
                   lobbies)
       ELSE LET lobby == lobbies[code] IN
            IF FindIndex(lobby.participants, username) # 0
            THEN Commit(Machine,
                        Put(lobbies, code, SetConnected(lobby, username, TRUE)))
            ELSE LET joined == [lobby EXCEPT !.participants =
                                   Append(@, [username |-> username,
                                              isHost |-> FALSE,
                                              connected |-> TRUE])]
                     m == IF code \in DOMAIN gameStates
                          THEN [Machine EXCEPT !.heap[gameStates[code]].scores =
                                                   Put(@, username, 0)]
                          ELSE Machine
                 IN Commit(m,
                           Put(lobbies, code, joined))
    /\ UNCHANGED <<gameImages, disconnectedPlayers, sockets, usedCodes>>

\* --------------------------------------------------------- socket handlers
\* socket.on('join-lobby')
JoinSocket(s, code, username) ==
    /\ sockets' = [sockets EXCEPT ![s] = [username |-> username,
                                         lobbyCode |-> code]]
    /\ IF code \in DOMAIN lobbies
       THEN LET lobby == SetConnected(lobbies[code], username, TRUE) IN
            Commit(Emit(Machine, Ev("lobby-updated", code, lobby)),
                   Put(lobbies, code, lobby))
       ELSE Commit(Machine, lobbies)
    /\ UNCHANGED <<gameImages, disconnectedPlayers, usedCodes>>

\* `gameState && gameState.phase !== 'waiting'`
MidGame(code) ==
    /\ code \in DOMAIN gameStates
    /\ heap[gameStates[code]].phase # "waiting"

\* socket.on('leave-lobby')
LeaveLobby(code, username) ==
    /\ IF code \notin DOMAIN lobbies
       THEN /\ Commit(Machine, lobbies)
            /\ UNCHANGED disconnectedPlayers
       ELSE LET lobby == lobbies[code] IN
            IF MidGame(code)
            THEN LET marked == SetConnected(lobby, username, FALSE) IN
                 /\ disconnectedPlayers' =
                        IF FindIndex(lobby.participants, username) # 0
                        THEN SetDisconnected(disconnectedPlayers, username, code)
                        ELSE disconnectedPlayers
                 /\ Commit(Emit(Machine, Ev("lobby-updated", code, marked)),
                           Put(lobbies, code, marked))
            ELSE LET left == [lobby EXCEPT !.participants = FilterOut(@, username)] IN
                 /\ UNCHANGED disconnectedPlayers
                 /\ IF Len(left.participants) = 0 \/ username = lobby.host
                    THEN Commit(Emit([Machine EXCEPT !.gs = Drop(@, code)],
                                     Ev("lobby-closed", code, NoData)),
                                Drop(lobbies, code))
                    ELSE Commit(Emit(Machine, Ev("lobby-updated", code, left)),
                                Put(lobbies, code, left))
    /\ UNCHANGED <<gameImages, sockets, usedCodes>>

\* socket.on('disconnect'); the socket is gone afterwards, and the slot
\* stands for the next connection
Disconnect(s) ==
    LET code == sockets[s].lobbyCode
        username == sockets[s].username
    IN
    /\ sockets' = [sockets EXCEPT ![s] = [username |-> "", lobbyCode |-> ""]]
    /\ IF code = "" \/ username = "" \/ code \notin DOMAIN lobbies
       THEN /\ Commit(Machine, lobbies)
            /\ UNCHANGED disconnectedPlayers
       ELSE LET lobby == lobbies[code] IN
            IF FindIndex(lobby.participants, username) = 0
            THEN /\ Commit(Machine, lobbies)
                 /\ UNCHANGED disconnectedPlayers
            ELSE IF MidGame(code)
            THEN LET marked == SetConnected(lobby, username, FALSE) IN
                 /\ disconnectedPlayers' =
                        SetDisconnected(disconnectedPlayers, username, code)
                 /\ Commit(Emit(Machine, Ev("lobby-updated", code, marked)),
                           Put(lobbies, code, marked))
            ELSE LET left == [lobby EXCEPT !.participants = FilterOut(@, username)] IN
                 /\ UNCHANGED disconnectedPlayers
                 /\ IF Len(left.participants) = 0 \/ username = lobby.host
                    THEN LET m1 == IF code \in DOMAIN gameStates
                                   THEN ClearInterval(Machine, gameStates[code])
                                   ELSE Machine
                         IN Commit(Emit([m1 EXCEPT !.gs = Drop(@, code)],
                                        Ev("lobby-closed", code, NoData)),
                                   Drop(lobbies, code))
                    ELSE Commit(Emit(Machine, Ev("lobby-updated", code, left)),
                                Put(lobbies, code, left))
    /\ UNCHANGED <<gameImages, usedCodes>>

\* `gameImages.length < 2`: one image too few goes unnoticed
TooFewImagesOffByOne == Len(gameImages) < 2

\* `gameImages.length < 3` of start-game and restart-game
TooFewImages == Len(gameImages) < 3

\* votes is the object `{}` of line 205; voteOrder is the order of its keys
\* (property insertion order: the order in which the votes were stored).
NewGameState(lobby) ==
    [phase |-> "discussion", roundNumber |-> 1, currentImages |-> <<>>,
     votes |-> EmptyMap, voteOrder |-> <<>>,
     scores |-> [u \in Names(lobby.participants) |-> 0],
     timer |-> DiscussionSeconds, timerInterval |-> NullHandle]

\* `lobby && lobby.host === username && lobby.participants.length >= 2`
MayStart(code, username) ==
    /\ code \in DOMAIN lobbies
    /\ lobbies[code].host = username
    /\ Len(lobbies[code].participants) >= 2

\* socket.on('start-game')
StartGame(code, username, maxPending) ==
    /\ IF ~MayStart(code, username)
       THEN Commit(Machine, lobbies)
       ELSE IF TooFewImages
       THEN Commit(Emit(Machine, Ev("error", code, NoData)), lobbies)
       ELSE LET lobby == [lobbies[code] EXCEPT !.gameStarted = TRUE]
                kept == Collect([Machine EXCEPT !.gs = Drop(@, code)])
                free == ObjIds \ DOMAIN kept
            IN /\ Pending < maxPending
               /\ free # {}
               /\ LET o == SetMin(free)
                      m1 == [Machine EXCEPT !.gs = Put(@, code, o),
                                            !.heap = Put(kept, o, NewGameState(lobby))]
                      m2 == Emit(m1, Ev("game-started", code, NoData))
                  IN Commit(SetTimeout(m2, "startDiscussionPhase", code, 0, 2),
                            Put(lobbies, code, lobby))
    /\ UNCHANGED <<gameImages, disconnectedPlayers, sockets, usedCodes>>

\* `vote.shoot && vote.shag` only
CompleteTwo(vote) == vote.shoot # "" /\ vote.shag # ""

\* `vote.shoot && vote.shag && vote.marry` as socket.on('cast-vote') tests it
VoteAccepted(vote) == Complete(vote)

\* A cast-vote payload without a vote field: `vote` is undefined.
Undefined == [undefined |-> TRUE]

\* An exception thrown inside a socket handler: nothing in server.js catches
\* it (no try/catch in the handlers, no process.on('uncaughtException')), so
\* the process ends and the registry, the timers and the connections with it.
Uncaught ==
    /\ running
    /\ running' = FALSE
    /\ lobbies' = EmptyMap
    /\ gameStates' = EmptyMap
    /\ heap' = EmptyMap
    /\ intervals' = {}
    /\ timeouts' = {}
    /\ gameImages' = <<>>
    /\ disconnectedPlayers' = <<>>
    /\ sockets' = [s \in DOMAIN sockets |-> [username |-> "", lobbyCode |-> ""]]
    /\ usedCodes' = {}
    /\ downAge' = EmptyMap
    /\ refused' = {}
    /\ emitted' = <<>>

\* socket.on('cast-vote'); `vote.shoot` of line 233 throws a TypeError when
\* the test of line 231 passes and vote is undefined
CastVote(code, username, vote) ==
    IF /\ code \in DOMAIN gameStates
       /\ heap[gameStates[code]].phase = "voting"
       /\ username \notin DOMAIN heap[gameStates[code]].votes
       /\ vote = Undefined
    THEN Uncaught
    ELSE
    /\ IF /\ code \in DOMAIN gameStates
          /\ heap[gameStates[code]].phase = "voting"
          /\ username \notin DOMAIN heap[gameStates[code]].votes
          /\ VoteAccepted(vote)
       THEN Commit([Machine EXCEPT !.heap[gameStates[code]].votes =
                                       Put(@, username, vote),
                                   !.heap[gameStates[code]].voteOrder =
                                       Append(@, username)],
                   lobbies)
       ELSE IF /\ code \in DOMAIN gameStates
               /\ heap[gameStates[code]].phase = "voting"
               /\ username \notin DOMAIN heap[gameStates[code]].votes
       THEN Commit([Machine EXCEPT !.ref = @ \cup {<<code, username>>}],
                   lobbies)
       ELSE Commit(Machine, lobbies)
    /\ UNCHANGED <<gameImages, disconnectedPlayers, sockets, usedCodes>>

\* lobby.participants.forEach(p => { gameState.scores[p.username] = 0; })
RECURSIVE ResetScores(_, _)
ResetScores(scores, ps) ==
    IF ps = <<>> THEN scores
    ELSE ResetScores(Put(scores, Head(ps).username, 0), Tail(ps))

\* `lobby && gameState && socket.username === lobby.host`
MayRestart(s, code) ==
    /\ code \in DOMAIN lobbies
    /\ code \in DOMAIN gameStates
    /\ sockets[s].username = lobbies[code].host

\* socket.on('restart-game')
RestartGame(s, code, maxPending) ==
    /\ IF ~MayRestart(s, code)
       THEN Commit(Machine, lobbies)
       ELSE IF TooFewImages
       THEN Commit(Emit(Machine, Ev("error", code, NoData)), lobbies)
       ELSE LET o == gameStates[code]
                m1 == [Machine EXCEPT
                          !.heap[o].phase = "discussion",
                          !.heap[o].roundNumber = 1,
                          !.heap[o].currentImages = <<>>,
                          !.heap[o].votes = EmptyMap,
                          !.heap[o].voteOrder = <<>>,
                          !.heap[o].timer = DiscussionSeconds,
                          !.heap[o].scores =
                              ResetScores(@, lobbies[code].participants)]
                m2 == Emit(ClearInterval(m1, o), Ev("game-started", code, NoData))
            IN /\ Pending < maxPending
               /\ Commit(SetTimeout(m2, "startDiscussionPhase", code, 0, 2),
                         lobbies)
    /\ UNCHANGED <<gameImages, disconnectedPlayers, sockets, usedCodes>>

\* --------------------------------------------------------- timer callbacks
\* One firing of the setInterval callback of startTimer (lines 531-540).
\* It acts on the gameState object i.obj the timer was started for (m2, m3:
\* the machine after the emit and after the clearInterval, each bound once).
IntervalTick(i) ==
    /\ i \in intervals
    /\ LET o == i.obj
           m1 == [Machine EXCEPT !.heap[o].timer = @ - 1]
       IN \E m2 \in {Emit(m1, Ev("game-timer", i.code,
                                 [timeRemaining |-> m1.heap[o].timer]))} :
          IF m2.heap[o].timer <= 0
          THEN /\ i.waits = {}
               /\ i.after = {}
               /\ \E m3 \in {[ClearInterval(m2, o) EXCEPT
                                  !.heap[o].timerInterval = NullHandle]} :
                     IF i.cb = "startVotingPhase"
                     THEN Commit(StartVotingPhase(m3, i.code), lobbies)
                     ELSE Commit(CalculateResults(m3, i.code), lobbies)
          ELSE Commit(m2, lobbies)
    /\ UNCHANGED <<gameImages, disconnectedPlayers, sockets, usedCodes>>

\* The callback t has run: it is pending no more and nothing waits for it.
Fired(t) ==
    [Machine EXCEPT
        !.to = {[u EXCEPT !.waits = @ \ {t.id}] : u \in @ \ {t}},
        !.iv = {[i EXCEPT !.waits = @ \ {t.id}] : i \in @}]

\* setTimeout(() => startDiscussionPhase(code), ...) of lines 221, 267, 500
FireStartDiscussion(t, idx) ==
    /\ t \in timeouts /\ t.waits = {}
    /\ t.fn = "startDiscussionPhase"
    /\ \A k \in 1..3 : idx[k] <= Len(gameImages) \/ Len(gameImages) < 3
    /\ Commit(StartDiscussionPhase(Fired(t), t.code, idx), lobbies)
    /\ UNCHANGED <<gameImages, disconnectedPlayers, sockets, usedCodes>>

\* setTimeout(() => showScoreboard(code), 5000) of line 476
FireShowScoreboard(t) ==
    /\ t \in timeouts /\ t.waits = {}
    /\ t.fn = "showScoreboard"
    /\ Commit(ShowScoreboard(Fired(t), t.code), lobbies)
    /\ UNCHANGED <<gameImages, disconnectedPlayers, sockets, usedCodes>>

\* the inner setTimeout of showScoreboard, line 491
FireScoreboardDone(t) ==
    /\ t \in timeouts /\ t.waits = {}
    /\ t.fn = "scoreboardDone"
    /\ Commit(ScoreboardDone(Fired(t), t.code, t.obj), lobbies)
    /\ UNCHANGED <<gameImages, disconnectedPlayers, sockets, usedCodes>>

\* ------------------------------------------------- grace sweep, pool, clock
Cap == timeout + 1

\* the forEach of the sweep: acc = [lb, out, kept]
RECURSIVE SweepEntries(_, _)
SweepEntries(entries, acc) ==
    IF entries = <<>> THEN acc
    ELSE LET e == Head(entries) IN
         IF e.age > timeout
         THEN IF e.code \in DOMAIN acc.lb
              THEN LET lobby == [acc.lb[e.code] EXCEPT
                                    !.participants = FilterOut(@, e.username)]
                   IN SweepEntries(Tail(entries),
                          [acc EXCEPT !.lb = Put(@, e.code, lobby),
                                      !.out = Append(@, Ev("lobby-updated",
                                                           e.code, lobby))])
              ELSE SweepEntries(Tail(entries), acc)
         ELSE SweepEntries(Tail(entries),
                           [acc EXCEPT !.kept = Append(@, e)])

\* the setInterval callback of lines 313-327
Sweep ==
    LET res == SweepEntries(disconnectedPlayers,
                            [lb |-> lobbies, out |-> <<>>, kept |-> <<>>])
    IN /\ disconnectedPlayers' = res.kept
       /\ Commit([Machine EXCEPT !.out = res.out], res.lb)
       /\ UNCHANGED <<gameImages, sockets, usedCodes>>

\* loadImages(): the pool becomes whatever the images directory holds
LoadImages(pool) ==
    /\ pool # gameImages
    /\ gameImages' = pool
    /\ Commit(Machine, lobbies)
    /\ UNCHANGED <<disconnectedPlayers, sockets, usedCodes>>

\* dt units of wall-clock time pass: Date.now() - timestamp grows for every
\* entry of disconnectedPlayers (ages beyond Cap are not told apart).
Older(age, dt) == IF age + dt > Cap THEN Cap ELSE age + dt

AdvanceTime(dt) ==
    /\ \/ \E i \in 1..Len(disconnectedPlayers) : disconnectedPlayers[i].age < Cap
       \/ \E p \in DOMAIN downAge : downAge[p] < Cap
    /\ disconnectedPlayers' =
           [i \in 1..Len(disconnectedPlayers) |->
               [disconnectedPlayers[i] EXCEPT !.age = Older(@, dt)]]
    /\ downAge' = [p \in DOMAIN downAge |-> Older(downAge[p], dt)]
    /\ emitted' = <<>>
    /\ running
    /\ UNCHANGED <<lobbies, gameStates, heap, intervals, timeouts, gameImages,
                   sockets, usedCodes, refused, running>>

\* ------------------------------------------------------------ specification
Pool2 == <<"A", "B">>
Pool3 == <<"A", "B", "C">>

InitOver(S, P) ==
    /\ lobbies = EmptyMap
    /\ gameStates = EmptyMap
    /\ heap = EmptyMap
    /\ intervals = {}
    /\ timeouts = {}
    /\ gameImages \in P
    /\ disconnectedPlayers = <<>>
    /\ sockets = [s \in S |-> [username |-> "", lobbyCode |-> ""]]
    /\ usedCodes = {}
    /\ downAge = EmptyMap
    /\ refused = {}
    /\ running = TRUE
    /\ emitted = <<>>

\* The requests and environment choices a specification enumerates:
\*   in.create, in.join, in.leave, in.start : <<code, username>>
\*   in.attach : <<socket, code, username>>  (join-lobby)
\*   in.restart : <<socket, code>>           in.socks : sockets that disconnect
\*   in.vote : <<code, username, ballot>>    in.draws : index triples
\*   in.pools : image pools                  in.steps : clock steps
\*   in.pending : the cap on pending callbacks for an accepted start/restart
NextOver(in) ==
    \/ \E r \in in.create : CreateLobby(r[1], r[2])
    \/ \E r \in in.join : JoinLobby(r[1], r[2])
    \/ \E r \in in.attach : JoinSocket(r[1], r[2], r[3])
    \/ \E r \in in.leave : LeaveLobby(r[1], r[2])
    \/ \E s \in in.socks : Disconnect(s)
    \/ \E r \in in.start : StartGame(r[1], r[2], in.pending)
    \/ \E r \in in.vote : CastVote(r[1], r[2], r[3])
    \/ \E r \in in.restart : RestartGame(r[1], r[2], in.pending)
    \/ \E i \in intervals : IntervalTick(i)
    \/ \E t \in timeouts, idx \in in.draws : FireStartDiscussion(t, idx)
    \/ \E t \in timeouts : FireShowScoreboard(t)
    \/ \E t \in timeouts : FireScoreboardDone(t)
    \/ Sweep
    \/ \E pool \in in.pools : LoadImages(pool)
    \/ \E dt \in in.steps : AdvanceTime(dt)

\* Every step may start over a busy game; used where a formula applies an
\* action to a step whatever cap the specification puts on the host.
NoCap == Pending + 1

\* Spec: one lobby, ann its host and bob; ann is the one who leaves, and the
\* socket is hers.  The host starts a game only when nothing is pending.
Votes ==
    {<<"L1", "ann", Ballot("A", "B", "C")>>, <<"L1", "ann", Ballot("A", "B", "")>>,
     <<"L1", "bob", Ballot("A", "B", "C")>>, <<"L1", "bob", Ballot("B", "A", "C")>>}
Players == {"ann", "bob"}
Inputs ==
    [create  |-> {<<"L1", "ann">>},
     join    |-> {"L1"} \X Players,
     attach  |-> {<<"s1", "L1", "ann">>},
     leave   |-> {<<"L1", "ann">>},
     socks   |-> {"s1"},
     start   |-> {"L1"} \X Players,
     vote    |-> Votes,
     restart |-> {<<"s1", "L1">>},
     draws   |-> {<<1, 2, 3>>},
     pools   |-> {Pool2, Pool3},
     steps   |-> {Cap},
     pending |-> MaxPending]
Init == InitOver({"s1"}, {Pool3})
Next == NextOver(Inputs)
Spec == Init /\ [][Next]_vars

\* SpecChurn: as Spec, but bob leaves and rejoins too, and casts one ballot.
InputsChurn ==
    [Inputs EXCEPT !.leave = {"L1"} \X Players,
                   !.vote = {<<"L1", "bob", Ballot("A", "B", "C")>>}]
NextChurn == NextOver(InputsChurn)
SpecChurn == Init /\ [][NextChurn]_vars

\* SpecBusy: as Spec, but the host may send start-game and restart-game
\* while one callback of the running game is pending; only bob joins over
\* HTTP, only the host sends start-game, and bob casts one ballot.
InputsBusy ==
    [Inputs EXCEPT !.join = {<<"L1", "bob">>},
                   !.start = {<<"L1", "ann">>},
                   !.vote = {<<"L1", "bob", Ballot("A", "B", "C")>>},
                   !.pending = MaxPendingBusy]
NextBusy == NextOver(InputsBusy)
SpecBusy == Init /\ [][NextBusy]_vars

\* SpecVotes: as Spec, with the ballots of a tie between ann and bob, a
\* ballot naming an image that was not drawn, an incomplete ballot and a
\* cast-vote payload without a vote.
VotesCast ==
    {<<"L1", "ann", Ballot("A", "B", "C")>>, <<"L1", "bob", Ballot("B", "A", "C")>>,
     <<"L1", "bob", Ballot("Z", "B", "C")>>, <<"L1", "bob", Ballot("A", "", "C")>>,
     <<"L1", "bob", Undefined>>}
InputsVotes ==
    [Inputs EXCEPT !.join = {<<"L1", "bob">>},
                   !.start = {<<"L1", "ann">>},
                   !.vote = VotesCast]
NextVotes == NextOver(InputsVotes)
SpecVotes == Init /\ [][NextVotes]_vars

\* SpecFair: as Spec with bob the only one to join and to vote, the host
\* sending start-game and restart-game only when no callback is pending, and
\* the event loop running every timer that is due: a pending countdown tick
\* or delayed callback is not postponed for ever.
InputsFair ==
    [Inputs EXCEPT !.join = {<<"L1", "bob">>},
                   !.start = {<<"L1", "ann">>},
                   !.vote = {<<"L1", "bob", Ballot("A", "B", "C")>>},
                   !.pending = 1]
NextFair == NextOver(InputsFair)
TimerStep ==
    \/ \E i \in intervals : IntervalTick(i)
    \/ \E t \in timeouts, idx \in InputsFair.draws : FireStartDiscussion(t, idx)
    \/ \E t \in timeouts : FireShowScoreboard(t)
    \/ \E t \in timeouts : FireScoreboardDone(t)
SpecFair == Init /\ [][NextFair]_vars /\ WF_vars(TimerStep)

\* ------------------------------------------------------------------ claims
HasEvent(evs, name, c) ==
    \E i \in 1..Len(evs) : evs[i].ev = name /\ evs[i].code = c
EventData(evs, name, c) ==
    evs[CHOOSE i \in 1..Len(evs) : evs[i].ev = name /\ evs[i].code = c].data

\* C1: every lobby code has at most one live 1-second countdown.
C1_OneCountdownPerCode ==
    \A c \in Codes : Cardinality({i \in intervals : i.code = c}) <= 1

\* C2: in every lobby at most one participant has isHost = TRUE and the
\* lobby's host username is a member of its participants list.
C2_SingleHostIsMember ==
    \A c \in DOMAIN lobbies :
        LET ps == lobbies[c].participants IN
        /\ Cardinality({i \in 1..Len(ps) : ps[i].isHost}) <= 1
        /\ lobbies[c].host \in Names(ps)

\* C3: no step other than an accepted start-game or restart-game (the steps
\* that emit game-started) lowers or drops a recorded score of a game.
C3_ScoresNeverDrop ==
    [][\A c \in Codes :
          (/\ c \in DOMAIN gameStates
           /\ c \in DOMAIN gameStates'
           /\ ~HasEvent(emitted', "game-started", c))
          => \A u \in DOMAIN heap[gameStates[c]].scores :
                /\ u \in DOMAIN heap'[gameStates'[c]].scores
                /\ heap'[gameStates'[c]].scores[u] >= heap[gameStates[c]].scores[u]
      ]_vars

\* C4: right after an accepted start-game or restart-game every entry of the
\* scores map is 0, roundNumber is 1 and votes is empty.
C4_StartResetsEverything ==
    \A c \in Codes :
        HasEvent(emitted, "game-started", c) =>
            /\ c \in DOMAIN gameStates
            /\ LET g == heap[gameStates[c]] IN
               /\ g.roundNumber = 1
               /\ DOMAIN g.votes = {}
               /\ \A u \in DOMAIN g.scores : g.scores[u] = 0

\* The ballots and names the formulas below range over.
AllBallots == {r[3] : r \in Votes}

\* The step computed the results of the game of code c.
ResultsStep(c) ==
    /\ c \in DOMAIN gameStates
    /\ c \in DOMAIN lobbies
    /\ HasEvent(emitted', "round-results", c)

\* u is a connected participant of c whose stored vote sets all three fields.
IsValidVoter(c, u) ==
    /\ \E i \in 1..Len(lobbies[c].participants) :
          /\ lobbies[c].participants[i].username = u
          /\ lobbies[c].participants[i].connected
    /\ u \in DOMAIN heap[gameStates[c]].votes
    /\ heap[gameStates[c]].votes[u].shoot # ""
    /\ heap[gameStates[c]].votes[u].shag # ""
    /\ heap[gameStates[c]].votes[u].marry # ""

ScoreOf(g, u) == IF u \in DOMAIN g.scores THEN g.scores[u] ELSE 0

\* C5: a vote that does not set all of shoot, shag and marry is never stored,
\* and a participant without a complete stored vote is not among the winners
\* of the round's results, is not counted as a voter and keeps their score.
C5_IncompleteVoteNeverCounts ==
    [][/\ \A c \in Codes, u \in Usernames, v \in AllBallots :
             (CastVote(c, u, v) /\ (v.shoot = "" \/ v.shag = "" \/ v.marry = ""))
                 => UNCHANGED heap
       /\ \A o \in DOMAIN heap' : \A u \in DOMAIN heap'[o].votes :
             /\ heap'[o].votes[u].shoot # ""
             /\ heap'[o].votes[u].shag # ""
             /\ heap'[o].votes[u].marry # ""
       /\ \A c \in Codes : ResultsStep(c) =>
             LET r == EventData(emitted', "round-results", c) IN
             /\ r.totalVoters = Cardinality({u \in Usernames : IsValidVoter(c, u)})
             /\ \A u \in Usernames : ~IsValidVoter(c, u) =>
                   /\ u \notin Range(r.winners)
                   /\ ScoreOf(heap'[gameStates'[c]], u)
                          = ScoreOf(heap[gameStates[c]], u)
      ]_vars

\* C5 witness: results were computed after cast-vote dropped the incomplete
\* ballot of a connected participant, who has no stored vote; another
\* participant won the point and this one has none.
C5_Witness ==
    \E c \in DOMAIN gameStates \cap DOMAIN lobbies :
        /\ HasEvent(emitted, "round-results", c)
        /\ EventData(emitted, "round-results", c).pointsAwarded = 1
        /\ \E i \in 1..Len(lobbies[c].participants) :
              LET p == lobbies[c].participants[i] IN
              /\ p.connected
              /\ <<c, p.username>> \in refused
              /\ p.username \notin DOMAIN heap[gameStates[c]].votes
              /\ heap[gameStates[c]].scores[p.username] = 0

\* C6: when results are computed, the score of a valid voter whose vote
\* equals the reported majority image in all three categories rises by
\* exactly 1 and every other score is unchanged; two participants who both
\* vote shoot A, shag B, marry C on the images A, B, C both gain a point.
C6_PointIffAllThreeMatch ==
    [][\A c \in Codes : ResultsStep(c) =>
          LET g == heap[gameStates[c]]
              h == heap'[gameStates'[c]]
              r == EventData(emitted', "round-results", c)
              Earns(u) == /\ IsValidVoter(c, u)
                          /\ g.votes[u].shoot = r.majorityChoices.shoot
                          /\ g.votes[u].shag = r.majorityChoices.shag
                          /\ g.votes[u].marry = r.majorityChoices.marry
          IN /\ \A u \in Usernames :
                   ScoreOf(h, u) = ScoreOf(g, u) + (IF Earns(u) THEN 1 ELSE 0)
             /\ DOMAIN g.scores \subseteq DOMAIN h.scores
             /\ (/\ Names(lobbies[c].participants) = {"ann", "bob"}
                 /\ \A u \in {"ann", "bob"} :
                       /\ IsValidVoter(c, u)
                       /\ g.votes[u] = Ballot("A", "B", "C")
                 /\ g.currentImages = <<"A", "B", "C">>)
                => /\ h.scores["ann"] = g.scores["ann"] + 1
                   /\ h.scores["bob"] = g.scores["bob"] + 1
      ]_vars

\* C6 witness: both participants voted A, B, C in the first round, the
\* results name both as winners and the scores are 1 and 1.
C6_Witness ==
    \E c \in DOMAIN gameStates \cap DOMAIN lobbies :
        /\ HasEvent(emitted, "round-results", c)
        /\ EventData(emitted, "round-results", c).winners = <<"ann", "bob">>
        /\ heap[gameStates[c]].currentImages = <<"A", "B", "C">>
        /\ heap[gameStates[c]].votes = [u \in {"ann", "bob"} |-> Ballot("A", "B", "C")]
        /\ heap[gameStates[c]].scores = [u \in {"ann", "bob"} |-> 1]

\* The host of c sends leave-lobby, or a socket of the host disconnects.
HostDeparts(c) ==
    /\ c \in DOMAIN lobbies
    /\ \/ LeaveLobby(c, lobbies[c].host)
       \/ \E s \in DOMAIN sockets :
             /\ sockets[s].lobbyCode = c
             /\ sockets[s].username = lobbies[c].host
             /\ Disconnect(s)

\* What C7 says of a step in which the host of c departs.
HostLeaveOutcome(c) ==
    LET host == lobbies[c].host IN
    IF c \in DOMAIN gameStates /\ heap[gameStates[c]].phase = "voting"
    THEN /\ c \in DOMAIN lobbies'
         /\ c \in DOMAIN gameStates'
         /\ Len(lobbies'[c].participants) = Len(lobbies[c].participants)
         /\ IsAway(lobbies', c, host)
         /\ HasEvent(emitted', "lobby-updated", c)
         /\ EventData(emitted', "lobby-updated", c) = lobbies'[c]
    ELSE (c \notin DOMAIN gameStates \/ heap[gameStates[c]].phase = "waiting")
         => /\ c \notin DOMAIN lobbies'
            /\ c \notin DOMAIN gameStates'
            /\ HasEvent(emitted', "lobby-closed", c)

\* C7: when the host leaves or disconnects during voting, the host stays in
\* the roster with connected = FALSE and lobby and game stay registered; when
\* the phase is waiting or there is no game, lobby and game are deleted and
\* lobby-closed is broadcast.
C7_HostLeaveByPhase ==
    [][\A c \in Codes : HostDeparts(c) => HostLeaveOutcome(c)]_vars

\* C7 on the steps in which the departing host is still on the roster.
C7_RosterHostLeaveByPhase ==
    [][\A c \in Codes :
          (HostDeparts(c) /\ lobbies[c].host \in Names(lobbies[c].participants))
              => HostLeaveOutcome(c)]_vars

\* C8: after a grace sweep no participant who had been disconnected for more
\* than the grace period is left in their lobby's roster, and the lobby's
\* roster was broadcast.
C8_SweepRemovesOverdue ==
    [][Sweep => \A p \in DOMAIN downAge :
          downAge[p] > timeout =>
              /\ ~IsAway(lobbies', p[1], p[2])
              /\ HasEvent(emitted', "lobby-updated", p[1])
      ]_vars

AllowedToStart(c, u) ==
    /\ c \in DOMAIN lobbies
    /\ lobbies[c].host = u
    /\ Len(lobbies[c].participants) >= 2
    /\ Len(gameImages) >= 3

C10_StartNeedsHostRosterPool ==
    [][\A c \in Codes :
          /\ \A u \in Usernames :
                (StartGame(c, u, NoCap) /\ ~AllowedToStart(c, u))
                    => UNCHANGED <<gameStates, heap, intervals, timeouts>>
          /\ \A s \in DOMAIN sockets :
                (RestartGame(s, c, NoCap) /\ ~AllowedToStart(c, sockets[s].username))
                    => UNCHANGED <<gameStates, heap, intervals, timeouts>>
      ]_vars

\* The payload sets shoot, shag and marry.
SetsAllThree(v) ==
    /\ DOMAIN v = {"shoot", "shag", "marry"}
    /\ v.shoot # "" /\ v.shag # "" /\ v.marry # ""

\* Game object h is game object g with u's vote v recorded.
VoteRecorded(g, h, u, v) ==
    /\ h.votes = Put(g.votes, u, v)
    /\ h.voteOrder = Append(g.voteOrder, u)
    /\ h.phase = g.phase /\ h.roundNumber = g.roundNumber
    /\ h.currentImages = g.currentImages /\ h.scores = g.scores
    /\ h.timer = g.timer /\ h.timerInterval = g.timerInterval

\* What C11 says of a step in which u sends cast-vote with payload v for c.
VoteFrame(c, u, v) ==
    IF /\ c \in DOMAIN gameStates
       /\ heap[gameStates[c]].phase = "voting"
       /\ SetsAllThree(v)
       /\ u \notin DOMAIN heap[gameStates[c]].votes
    THEN /\ UNCHANGED <<lobbies, gameStates, intervals, timeouts>>
         /\ DOMAIN heap' = DOMAIN heap
         /\ \A o \in DOMAIN heap :
               IF o = gameStates[c]
               THEN VoteRecorded(heap[o], heap'[o], u, v)
               ELSE heap'[o] = heap[o]
    ELSE UNCHANGED <<lobbies, gameStates, heap, intervals, timeouts>>

\* C11: cast-vote records the vote when a game exists, its phase is voting,
\* the payload sets all three categories and the username has no vote in
\* the round; in every other case it changes no lobby, game, countdown or
\* delay, so a recorded vote is never replaced.
C11_VoteFrame ==
    [][\A r \in VotesCast : CastVote(r[1], r[2], r[3]) => VoteFrame(r[1], r[2], r[3])
      ]_vars

\* C11 on the payloads that carry a vote object.
C11_VoteFrameOfBallots ==
    [][\A r \in VotesCast :
          (r[3] # Undefined /\ CastVote(r[1], r[2], r[3]))
              => VoteFrame(r[1], r[2], r[3])
      ]_vars

\* A countdown tick or a delayed callback of the session of code c runs.
TimerStepOf(c) ==
    \/ \E i \in intervals : i.code = c /\ IntervalTick(i)
    \/ \E t \in timeouts :
          /\ t.code = c
          /\ \/ FireStartDiscussion(t, <<1, 2, 3>>)
             \/ FireShowScoreboard(t)
             \/ FireScoreboardDone(t)

\* The session of code c was created and has been torn down.
TornDown(c) == c \in usedCodes /\ c \notin DOMAIN lobbies

\* C12: once a session is torn down, every countdown tick and every delayed
\* callback of it that still fires emits no event and changes no lobby and
\* no registered game.
C12_NoEffectAfterTeardown ==
    [][\A c \in Codes : (TornDown(c) /\ TimerStepOf(c)) =>
          /\ emitted' = <<>>
          /\ UNCHANGED <<lobbies, gameStates>>
      ]_vars

\* The steps of the phase cycle.
PhaseOrder ==
    {<<"discussion", "voting">>, <<"voting", "results">>,
     <<"results", "scoreboard">>, <<"scoreboard", "waiting">>,
     <<"waiting", "discussion">>}

\* C13: the phase of the game registered for a code changes only along
\* discussion -> voting -> results -> scoreboard -> waiting -> discussion, or
\* to discussion by an accepted start-game or restart-game (the steps that
\* emit game-started), whenever the host sends start or restart.
C13_PhaseOrder ==
    [][\A c \in Codes :
          (c \in DOMAIN gameStates /\ c \in DOMAIN gameStates') =>
              LET p == heap[gameStates[c]].phase
                  q == heap'[gameStates'[c]].phase
              IN \/ q = p
                 \/ <<p, q>> \in PhaseOrder
                 \/ HasEvent(emitted', "game-started", c) /\ q = "discussion"
      ]_vars

\* The image the arrival-order rule names for category cat of the game of
\* code c: among the images with the highest count over the valid voters,
\* the one voted by the valid voter whose vote was stored first.
ArrivalMajority(c, cat) ==
    LET g == heap[gameStates[c]]
        valid == {u \in DOMAIN g.votes : IsValidVoter(c, u)}
        order == SelectSeq(g.voteOrder, LAMBDA u : u \in valid)
        count(k) == Cardinality({u \in valid : g.votes[u][cat] = k})
        top == {k \in {g.votes[u][cat] : u \in valid} :
                   \A u \in valid : count(g.votes[u][cat]) <= count(k)}
        first == SetMin({i \in 1..Len(order) : g.votes[order[i]][cat] \in top})
    IN g.votes[order[first]][cat]

\* C14: when results are computed from at least one valid vote, the majority
\* of each category is the image with the highest count, and among images
\* that tie for it the one whose first vote arrived earliest, whatever the
\* order of the roster.
C14_TieByArrival ==
    [][\A c \in Codes :
          (/\ ResultsStep(c)
           /\ \E u \in DOMAIN heap[gameStates[c]].votes : IsValidVoter(c, u))
          => \A cat \in Range(Categories) :
                EventData(emitted', "round-results", c).majorityChoices[cat]
                    = ArrivalMajority(c, cat)
      ]_vars

\* The game of code c has ended: a game is registered and no countdown and
\* no delayed callback of the session is left, which is the state endGame
\* leaves behind (every other phase has a countdown or a delay pending).
GameOver(c) ==
    /\ c \in DOMAIN gameStates
    /\ c \in DOMAIN lobbies
    /\ \A i \in intervals : i.code # c
    /\ \A t \in timeouts : t.code # c

\* u is no longer on the roster of c after the step.
Removed(c, u) ==
    c \in DOMAIN lobbies' => u \notin Names(lobbies'[c].participants)

\* C15: once a game has ended, the leave-lobby or disconnect of a participant
\* removes them from the roster at once (and tears the session down when
\* they are the host or the last one), as in the waiting phase.
C15_LeaveAfterEnd ==
    [][/\ \A c \in Codes, u \in Usernames :
             (/\ GameOver(c)
              /\ u \in Names(lobbies[c].participants)
              /\ LeaveLobby(c, u))
             => Removed(c, u)
       /\ \A s \in DOMAIN sockets :
             (/\ sockets[s].lobbyCode \in Codes
              /\ GameOver(sockets[s].lobbyCode)
              /\ sockets[s].username
                     \in Names(lobbies[sockets[s].lobbyCode].participants)
              /\ Disconnect(s))
             => Removed(sockets[s].lobbyCode, sockets[s].username)
      ]_vars

\* A game of code c is under way: registered, with a countdown or a delay
\* of the session pending.
GameRunning(c) ==
    /\ c \in DOMAIN gameStates
    /\ c \in DOMAIN lobbies
    /\ ~GameOver(c)

\* What a step may do to the round counter of the game of c: nothing, or
\* add one as the scoreboard phase is left (for waiting, or for the end of
\* the game); leaving the scoreboard phase always adds one.
CountsRounds(c) ==
    LET g == heap[gameStates[c]]
        h == heap'[gameStates'[c]]
    IN /\ h.roundNumber # g.roundNumber =>
             /\ g.phase = "scoreboard"
             /\ h.roundNumber = g.roundNumber + 1
             /\ h.phase = "waiting" \/ HasEvent(emitted', "game-ended", c)
       /\ (g.phase = "scoreboard" /\ h.phase # "scoreboard") =>
             h.roundNumber = g.roundNumber + 1

\* The state of the game of c in a round and at its end.
RoundsInRange(c) ==
    LET g == heap[gameStates[c]] IN
    /\ HasEvent(emitted, "images-selected", c) =>
          (1 <= g.roundNumber /\ g.roundNumber <= totalRounds)
    /\ HasEvent(emitted, "game-ended", c) =>
          /\ Len(gameImages) >= 3 => g.roundNumber = totalRounds + 1
          /\ GameOver(c)

\* C16: with timers firing fairly and the host starting only when no game is
\* under way, a game under way leads to game-ended or to the teardown of its
\* session; the round counter goes up by exactly one per scoreboard phase,
\* discussion phases start with 1 <= roundNumber <= totalRounds, game-ended
\* comes with roundNumber = totalRounds + 1 while the pool is usable, and
\* game-ended leaves no countdown and no delay pending.
C16_EndsAfterTotalRounds ==
    /\ [][\A c \in Codes :
             (/\ c \in DOMAIN gameStates
              /\ c \in DOMAIN gameStates'
              /\ ~HasEvent(emitted', "game-started", c))
             => (CountsRounds(c) /\ RoundsInRange(c)')
         ]_vars
    /\ \A c \in Codes :
          GameRunning(c) ~>
              (HasEvent(emitted, "game-ended", c) \/ c \notin DOMAIN lobbies)

\* C16 witness: the game has just ended after its last scoreboard, with a
\* usable pool and bob's vote of the last round still stored.
C16_Witness ==
    \E c \in DOMAIN gameStates :
        /\ HasEvent(emitted, "game-ended", c)
        /\ Len(gameImages) >= 3
        /\ heap[gameStates[c]].roundNumber = totalRounds + 1
        /\ heap[gameStates[c]].phase = "scoreboard"
        /\ "bob" \in DOMAIN heap[gameStates[c]].votes

\* C17: when results are computed, a participant whose connected flag is
\* false is no winner and keeps their score whatever they voted, the number
\* of voters reported is the number of connected participants with a
\* complete vote, and each majority is an image one of those voted for that
\* no image beats in count among their votes alone.
C17_DisconnectedNotTallied ==
    [][\A c \in Codes :
          ResultsStep(c) =>
              LET g == heap[gameStates[c]]
                  h == heap'[gameStates'[c]]
                  r == EventData(emitted', "round-results", c)
                  valid == {u \in Usernames : IsValidVoter(c, u)}
                  count(cat, k) ==
                      Cardinality({u \in valid : g.votes[u][cat] = k})
              IN /\ r.totalVoters = Cardinality(valid)
                 /\ Range(r.winners) \subseteq valid
                 /\ \A u \in Usernames \ valid : ScoreOf(h, u) = ScoreOf(g, u)
                 /\ valid # {} =>
                       \A cat \in Range(Categories) :
                           /\ \E u \in valid :
                                 g.votes[u][cat] = r.majorityChoices[cat]
                           /\ \A u \in valid :
                                 count(cat, g.votes[u][cat])
                                     <= count(cat, r.majorityChoices[cat])
      ]_vars

\* C17 witness: results were computed while ann, who had voted A/B/C, was
\* marked disconnected; bob's B/A/C alone decided the majorities and bob won.
C17_Witness ==
    \E c \in DOMAIN gameStates :
        /\ c \in DOMAIN lobbies
        /\ HasEvent(emitted, "round-results", c)
        /\ IsAway(lobbies, c, "ann")
        /\ "ann" \in DOMAIN heap[gameStates[c]].votes
        /\ heap[gameStates[c]].votes["ann"] = Ballot("A", "B", "C")
        /\ EventData(emitted, "round-results", c).winners = <<"bob">>
        /\ EventData(emitted, "round-results", c).totalVoters = 1
        /\ EventData(emitted, "round-results", c).majorityChoices.shoot = "B"

\* C18: when results are computed and no connected participant has a
\* complete vote, the majority of every category is the first image of the
\* round's triple, nobody gains a point and 0 voters are reported.
C18_NoVotesDefault ==
    [][\A c \in Codes :
          (ResultsStep(c) /\ \A u \in Usernames : ~IsValidVoter(c, u)) =>
              LET g == heap[gameStates[c]]
                  h == heap'[gameStates'[c]]
                  r == EventData(emitted', "round-results", c)
              IN /\ Len(g.currentImages) = 3
                 /\ \A cat \in Range(Categories) :
                       r.majorityChoices[cat] = g.currentImages[1]
                 /\ r.totalVoters = 0
                 /\ r.pointsAwarded = 0
                 /\ r.winners = <<>>
                 /\ \A u \in Usernames : ScoreOf(h, u) = ScoreOf(g, u)
      ]_vars

\* C19: the grace sweep removes no participant whose connected flag is true
\* when it runs; a participant who has reconnected stays on the roster.
C19_SweepSparesConnected ==
    [][Sweep =>
          \A c \in DOMAIN lobbies :
              \A i \in 1..Len(lobbies[c].participants) :
                  lobbies[c].participants[i].connected =>
                      /\ c \in DOMAIN lobbies'
                      /\ lobbies[c].participants[i].username
                             \in Names(lobbies'[c].participants)
      ]_vars

\* C20: whenever results are computed, currentImages is the triple drawn for
\* the round and the majority reported for each category is one of the
\* three, whatever votes cast-vote accepted in the round.
C20_MajorityAmongDrawn ==
    [][\A c \in Codes :
          ResultsStep(c) =>
              LET g == heap[gameStates[c]]
                  r == EventData(emitted', "round-results", c)
              IN /\ Len(g.currentImages) = 3
                 /\ \A cat \in Range(Categories) :
                       r.majorityChoices[cat] \in Range(g.currentImages)
      ]_vars

====
